---- MODULE Spec2Model ----
(***************************************************************************)
(* gitlab-repo-mirror (src/main.go): the batch that mirrors every          *)
(* repository of the configured sources into a local directory tree.       *)
(*                                                                         *)
(* Strings that the program only compares are TLA+ strings; strings that   *)
(* the glob matcher scans (remote URLs, include/exclude patterns) are      *)
(* sequences of one-character strings.                                     *)
(***************************************************************************)
EXTENDS Integers, Sequences, FiniteSets, TLC

(***************************************************************************)
(* Bounds of the model.                                                    *)
(***************************************************************************)
\* number of times the batch is invoked one after the other (external trigger)
MaxRuns == 2
\* number of entries the walk of a mirror's objects directory can meet
MaxFiles == 2
\* number of patterns in an include or exclude list of the filter inputs
MaxPatterns == 2

(***************************************************************************)
(* filepath.Match(pattern, name) on a build whose path separator is "/",   *)
(* reduced to the boolean the caller uses (err == nil && matched): a       *)
(* malformed pattern never matches. Pattern syntax: "*" any run of         *)
(* non-separator characters, "?" one non-separator character, "[...]" one  *)
(* character of the listed ones, "\c" the character c, anything else       *)
(* itself. Classes are modelled without ranges and without negation.       *)
(***************************************************************************)
Separator == "/"

NoSeparator(name, from, to) == \A k \in from..to : name[k] # Separator

\* index of the "]" closing the class opened at pattern[i], 0 if the class is
\* malformed (no member, or never closed)
ClassEnd(pattern, i) ==
    LET ends == {e \in (i + 2)..Len(pattern) : pattern[e] = "]"}
    IN  IF i + 1 <= Len(pattern) /\ pattern[i + 1] # "]" /\ ends # {}
        THEN CHOOSE e \in ends : \A f \in ends : e <= f
        ELSE 0

RECURSIVE MatchFrom(_, _, _, _)
MatchFrom(pattern, name, i, j) ==
    IF i > Len(pattern) THEN j > Len(name)
    ELSE CASE pattern[i] = "*" ->
                \E k \in j..(Len(name) + 1) :
                    /\ NoSeparator(name, j, k - 1)
                    /\ MatchFrom(pattern, name, i + 1, k)
           [] pattern[i] = "?" ->
                /\ j <= Len(name)
                /\ name[j] # Separator
                /\ MatchFrom(pattern, name, i + 1, j + 1)
           [] pattern[i] = "\\" ->
                /\ i + 1 <= Len(pattern)
                /\ j <= Len(name)
                /\ name[j] = pattern[i + 1]
                /\ MatchFrom(pattern, name, i + 2, j + 1)
           [] pattern[i] = "[" ->
                LET e == ClassEnd(pattern, i)
                IN  /\ e # 0
                    /\ j <= Len(name)
                    /\ \E m \in (i + 1)..(e - 1) : pattern[m] = name[j]
                    /\ MatchFrom(pattern, name, e + 1, j + 1)
           [] OTHER ->
                /\ j <= Len(name)
                /\ name[j] = pattern[i]
                /\ MatchFrom(pattern, name, i + 1, j + 1)

Match(pattern, name) == MatchFrom(pattern, name, 1, 1)

(***************************************************************************)
(* matches(s, e): the loop over the patterns, returning at the first hit.  *)
(***************************************************************************)
RECURSIVE matchesFrom(_, _, _)
matchesFrom(s, e, i) ==
    IF i > Len(s) THEN FALSE
    ELSE IF s[i] = e THEN TRUE
    ELSE IF Match(s[i], e) THEN TRUE
    ELSE matchesFrom(s, e, i + 1)

matches(s, e) == matchesFrom(s, e, 1)

\* a plausible slip: the include test made before the exclude test, so that an
\* include hit lets an excluded URL through
skipIncludeFirst(source, remote) ==
    IF Len(source.Include) > 0
    THEN ~matches(source.Include, remote)
    ELSE matches(source.Exclude, remote)

skip(source, remote) ==
    IF matches(source.Exclude, remote) THEN TRUE
    ELSE IF Len(source.Include) > 0 /\ ~matches(source.Include, remote) THEN TRUE
    ELSE FALSE

(***************************************************************************)
(* objects(local): the walk of <local>/objects.  An entry of the walk is a *)
(* directory, a file whose name ends in ".pack", another file, an entry    *)
(* the walk reports with an error, or a ".pack" file whose Info() fails.   *)
(***************************************************************************)
Threshold == 95 * 1024 * 1024

FileSizes == {Threshold, Threshold + 1}

FileEntries ==
    [kind : {"dir", "pack", "other"}, size : FileSizes]
        \cup {[kind |-> "walkerr", size |-> 0], [kind |-> "infoerr", size |-> 0]}

FileLists == UNION {[1..n -> FileEntries] : n \in 0..MaxFiles}

RECURSIVE objectsWalk(_, _, _, _)
objectsWalk(files, i, largestsize, count) ==
    IF i > Len(files)
    THEN [largestsize |-> largestsize, count |-> count, err |-> FALSE]
    ELSE LET d == files[i]
         IN  IF d.kind = "walkerr"
             THEN [largestsize |-> largestsize, count |-> count, err |-> TRUE]
             ELSE IF d.kind = "dir"
             THEN objectsWalk(files, i + 1, largestsize, count)
             ELSE IF d.kind = "other"
             THEN objectsWalk(files, i + 1, largestsize, count + 1)
             ELSE IF d.kind = "infoerr"
             THEN [largestsize |-> largestsize, count |-> count + 1, err |-> TRUE]
             ELSE IF d.size >= largestsize
             THEN objectsWalk(files, i + 1, d.size, count + 1)
             ELSE objectsWalk(files, i + 1, largestsize, count + 1)

objects(files) == objectsWalk(files, 1, 0, 0)

(***************************************************************************)
(* The configuration and the remote side of the modelled batch: two        *)
(* accounts of one host.  Both list team/api, so the two sources share     *)
(* that repository's local path.                                           *)
(***************************************************************************)
Host == <<"h","t","t","p","s",":","/","/","g","i","t","l","a","b",".",
          "e","x","a","m","p","l","e",".","c","o","m">>
TeamURL == Host \o <<"/","t","e","a","m">>
ApiURL == TeamURL \o <<"/","a","p","i",".","g","i","t">>
ArchivedURL == TeamURL \o <<"/","a","r","c","h","i","v","e","d">>
OldURL == ArchivedURL \o <<"/","o","l","d",".","g","i","t">>
\* the patterns "*/archived/*", "https://gitlab.example.com/team/archived/*"
\* and "https://gitlab.example.com/team/*"
ArchivedGlob == <<"*","/","a","r","c","h","i","v","e","d","/","*">>
ArchivedPrefixGlob == ArchivedURL \o <<"/","*">>
TeamGlob == TeamURL \o <<"/","*">>

Destination == "/srv/mirror"

Sources ==
    << [Domain |-> "gitlab.example.com", Username |-> "", Token |-> "",
        Exclude |-> <<ArchivedGlob>>, Include |-> <<>>],
       [Domain |-> "gitlab.example.com", Username |-> "bob", Token |-> "t",
        Exclude |-> <<ArchivedPrefixGlob>>, Include |-> <<TeamGlob>>] >>

ApiRepo == [PathWithNamespace |-> "team/api", HTTPURLToRepo |-> ApiURL]
OldRepo == [PathWithNamespace |-> "team/archived/old", HTTPURLToRepo |-> OldURL]

\* what the projects API of each source answers, page by page; every later
\* page is empty
RemotePages == << << <<ApiRepo>>, <<OldRepo>> >>, << <<ApiRepo, OldRepo>> >> >>

RemotePage(s, p) ==
    IF p <= Len(RemotePages[s]) THEN RemotePages[s][p] ELSE <<>>

\* fmt.Sprintf("%s.git", filepath.Join(config.Destination, source.Domain,
\* repo.PathWithNamespace)): the path is kept as its three components
LocalPath(source, repo) == <<Destination, source.Domain, repo.PathWithNamespace>>

AllPaths == {LocalPath(Sources[s], r) : s \in 1..Len(Sources), r \in {ApiRepo, OldRepo}}

Counters == {"Skipped", "Mirrored", "Updated", "Failed", "FailedMirror", "FailedUpdate"}

(***************************************************************************)
(* State.  Program state: pc (position in main), si (index of the source   *)
(* of the outer loop), stats, page and repos (getRepo's locals, repos then *)
(* being the slice main ranges over), ri (index of the repository of the   *)
(* inner loop), local, largestsize, and fs, the set of local paths that    *)
(* exist.  run counts the invocations of the program.                      *)
(* History: ops (the operations invoked for the repository at ri, in       *)
(* order, each with its result), outcome (the counter incremented for     *)
(* it), maxpack (the size of the largest ".pack" file of the tree that     *)
(* objects walked), fs0 (fs when the run began), good (the repositories    *)
(* counted Mirrored or Updated in this run, as <<source, index, counter>>),*)
(* prevGood (the same for the previous run), listfailed (the sources whose *)
(* listing failed, each with the page whose fetch failed), report (the     *)
(* lines logged at the end), logged (the lines logged for the repository   *)
(* at ri), left (the local paths that a rollback failed to remove and that *)
(* nothing has deleted since).                                             *)
(* fsource, fremote, fresult: arguments and result ("skip" for true,       *)
(* "keep" for false) of a call of skip.                                    *)
(***************************************************************************)
VARIABLES pc, run, si, stats, page, repos, ri, local, largestsize, fs,
          ops, outcome, maxpack, fs0, good, prevGood, listfailed, report,
          logged, left,
          fsource, fremote, fresult

progvars_but_pc == <<run, si, stats, page, repos, ri, local, largestsize, fs>>
progvars == <<pc, progvars_but_pc>>
histvars == <<ops, outcome, maxpack, fs0, good, prevGood, listfailed, report,
              logged, left>>
filtervars == <<fsource, fremote, fresult>>
vars == <<progvars, histvars, filtervars>>

NoPath == <<>>

NewStat(s) ==
    [Source |-> s, Repos |-> <<>>, Skipped |-> 0, Mirrored |-> 0, Updated |-> 0,
     Failed |-> 0, FailedMirror |-> 0, FailedUpdate |-> 0]

Init ==
    /\ pc = "main"
    /\ run = 1
    /\ si = 1
    /\ stats = <<>>
    /\ page = 1
    /\ repos = <<>>
    /\ ri = 1
    /\ local = NoPath
    /\ largestsize = 0
    /\ fs \in SUBSET AllPaths
    /\ ops = <<>>
    /\ outcome = "none"
    /\ maxpack = 0
    /\ fs0 = fs
    /\ good = {}
    /\ prevGood = {}
    /\ listfailed = {}
    /\ report = <<>>
    /\ logged = <<>>
    /\ left = {}
    /\ fsource = [Exclude |-> <<>>, Include |-> <<>>]
    /\ fremote = <<>>
    /\ fresult = "idle"

(***************************************************************************)
(* The external commands, by their effect on the set of existing paths.    *)
(* os.Stat answers "ok" only for a path that exists and "notexist" only    *)
(* for one that does not; any other error can come in both cases.  A       *)
(* failed "git clone --mirror" may or may not leave a partial directory;   *)
(* a failed "rm -rf" leaves the path as it was.                            *)
(***************************************************************************)
osStat(paths, path) ==
    IF path \in paths THEN {"ok", "error"} ELSE {"notexist", "error"}

clone(paths, path, ok, partial) ==
    IF ok \/ partial THEN paths \cup {path} ELSE paths

\* a plausible slip: rm -rf run on the directory of the domain, which holds
\* the mirrors of the other repositories too
removeDomain(paths, path, ok) ==
    IF ok THEN {p \in paths : p[2] # path[2]} ELSE paths

remove(paths, path, ok) ==
    IF ok THEN paths \ {path} ELSE paths

(***************************************************************************)
(* main, one action per step.                                              *)
(***************************************************************************)
\* how ops records the result of a command
Result(ok) == IF ok THEN "ok" ELSE "fail"

\* the lines main logs around the call of a command, given the position of
\* main, the command and its result (lines 83, 88, 91, 98, 105, 112, 121, 126,
\* 130, 135, 138, 141, 147, 151); nothing is logged around remove
LogLines(at, op, res) ==
    IF op = "stat"
    THEN CASE res = "error" -> << <<"Failed to stat">> >>
           [] res = "notexist" -> << <<"Mirroring">> >>
           [] res = "ok" -> << <<"Updating">> >>
    ELSE IF op = "remove" THEN <<>>
    ELSE IF res = "fail"
    THEN << <<IF at \in {"updDisablegc", "updUpdate"}
              THEN "Failed update" ELSE "Failed mirror", op>> >>
    ELSE IF op = "repack" THEN << <<"Repack finished">> >>
    ELSE IF op = "update"
    THEN << <<IF at = "updUpdate" THEN "Successfully update" ELSE "Successfully mirror">> >>
    ELSE <<>>

\* a command is called and returns
Record(op, res) ==
    /\ ops' = Append(ops, <<op, res>>)
    /\ logged' = logged \o LogLines(pc, op, res)

\* what no step of the loop body but remove changes
frame_but_left ==
    <<run, si, page, repos, local, fs0, prevGood, listfailed, report, filtervars>>

\* what no step of the loop body changes
frame == <<frame_but_left, left>>

\* the steps but objects leave the measurements alone
sizes == <<largestsize, maxpack>>

\* stat.<counter>++; continue
Count(counter) ==
    /\ stats' = [stats EXCEPT ![si][counter] = @ + 1]
    /\ outcome' = counter
    /\ good' = IF counter \in {"Mirrored", "Updated"} THEN good \cup {<<si, ri, counter>>} ELSE good
    /\ ri' = ri + 1
    /\ pc' = "repo"

\* fall through to the next statement of the loop body
Goto(next) ==
    /\ pc' = next
    /\ UNCHANGED <<stats, outcome, good, ri>>

\* lines 61-66: the head of the loop over the sources
MainSource ==
    /\ pc = "main"
    /\ IF si > Len(Sources)
       THEN /\ pc' = "report"
            /\ UNCHANGED <<stats, page, repos>>
       ELSE /\ stats' = Append(stats, NewStat(si))
            /\ page' = 1
            /\ repos' = <<>>
            /\ pc' = "getRepo"
    /\ UNCHANGED <<run, si, ri, local, largestsize, fs, histvars, filtervars>>

\* a plausible slip: getRepo returning the pages fetched so far along with the
\* error, and main going on with them
GetRepoKeepsPartial ==
    /\ pc = "getRepo"
    /\ \E err \in BOOLEAN :
          IF err
          THEN /\ listfailed' = listfailed \cup {<<si, page>>}
               /\ stats' = [stats EXCEPT ![si].Repos = repos]
               /\ ri' = 1
               /\ pc' = "repo"
               /\ UNCHANGED <<si, repos, page>>
          ELSE LET pageRepos == RemotePage(si, page)
               IN  IF Len(pageRepos) = 0
                   THEN /\ stats' = [stats EXCEPT ![si].Repos = repos]
                        /\ ri' = 1
                        /\ pc' = "repo"
                        /\ UNCHANGED <<si, repos, page, listfailed>>
                   ELSE /\ repos' = repos \o pageRepos
                        /\ page' = page + 1
                        /\ UNCHANGED <<pc, si, stats, ri, listfailed>>
    /\ UNCHANGED <<run, local, largestsize, fs, ops, outcome, maxpack, fs0, good,
                   prevGood, report, logged, left, filtervars>>

\* lines 66-72 and 184-200: one turn of getRepo's loop, and its return to main
GetRepo ==
    /\ pc = "getRepo"
    /\ \E err \in BOOLEAN :
          IF err
          THEN /\ listfailed' = listfailed \cup {<<si, page>>}
               /\ si' = si + 1
               /\ repos' = <<>>
               /\ page' = 1
               /\ pc' = "main"
               /\ UNCHANGED <<stats, ri>>
          ELSE LET pageRepos == RemotePage(si, page)
               IN  IF Len(pageRepos) = 0
                   THEN /\ stats' = [stats EXCEPT ![si].Repos = repos]
                        /\ ri' = 1
                        /\ pc' = "repo"
                        /\ UNCHANGED <<si, repos, page, listfailed>>
                   ELSE /\ repos' = repos \o pageRepos
                        /\ page' = page + 1
                        /\ UNCHANGED <<pc, si, stats, ri, listfailed>>
    /\ UNCHANGED <<run, local, largestsize, fs, ops, outcome, maxpack, fs0, good,
                   prevGood, report, logged, left, filtervars>>

\* a plausible slip: the mirror of a repository that the filter rejects is
\* pruned
MainRepoPrunesSkipped ==
    /\ pc = "repo"
    /\ IF ri > Len(repos)
       THEN /\ si' = si + 1
            /\ pc' = "main"
            /\ local' = NoPath
            /\ ops' = <<>>
            /\ logged' = <<>>
            /\ outcome' = "none"
            /\ UNCHANGED <<stats, good, ri, fs>>
       ELSE LET repo == repos[ri]
                remote == repo.HTTPURLToRepo
            IN  /\ local' = LocalPath(Sources[si], repo)
                /\ ops' = <<>>
                /\ logged' = <<>>
                /\ IF skip(Sources[si], remote)
                   THEN Count("Skipped") /\ fs' = remove(fs, local', TRUE)
                   ELSE /\ pc' = "stat"
                        /\ outcome' = "none"
                        /\ UNCHANGED <<stats, good, ri, fs>>
                /\ UNCHANGED si
    /\ largestsize' = 0
    /\ maxpack' = 0
    /\ UNCHANGED <<run, page, repos, fs0, prevGood, listfailed, report, left,
                   filtervars>>

\* lines 73-79: the head of the loop over the repositories, and the filter
MainRepo ==
    /\ pc = "repo"
    /\ IF ri > Len(repos)
       THEN /\ si' = si + 1
            /\ pc' = "main"
            /\ local' = NoPath
            /\ ops' = <<>>
            /\ logged' = <<>>
            /\ outcome' = "none"
            /\ UNCHANGED <<stats, good, ri>>
       ELSE LET repo == repos[ri]
                remote == repo.HTTPURLToRepo
            IN  /\ local' = LocalPath(Sources[si], repo)
                /\ ops' = <<>>
                /\ logged' = <<>>
                /\ IF skip(Sources[si], remote)
                   THEN Count("Skipped")
                   ELSE /\ pc' = "stat"
                        /\ outcome' = "none"
                        /\ UNCHANGED <<stats, good, ri>>
                /\ UNCHANGED si
    /\ largestsize' = 0
    /\ maxpack' = 0
    /\ UNCHANGED <<run, page, repos, fs, fs0, prevGood, listfailed, report, left,
                   filtervars>>

\* the size of the largest ".pack" file among the entries (history)
MaxPack(files) ==
    LET packs == {files[i].size : i \in {j \in 1..Len(files) : files[j].kind = "pack"}}
    IN  IF packs = {} THEN 0 ELSE CHOOSE m \in packs : \A n \in packs : n <= m

\* a mirror that os.Stat finds in place has no pack at all or a largest pack
\* over the threshold (history: main does not look at it)
FoundSizes(r) == IF r = "ok" THEN {0, Threshold + 1} ELSE {0}

\* a plausible slip: the error of os.Stat taken for "not exist" whatever it is
\* (the os.IsNotExist test left out)
MainStatAnyErrorAbsent ==
    /\ pc = "stat"
    /\ \E r \in osStat(fs, local) :
          /\ Record("stat", r)
          /\ maxpack' \in FoundSizes(r)
          /\ CASE r = "error" -> Goto("clone")
               [] r = "notexist" -> Goto("clone")
               [] r = "ok" -> Goto("updDisablegc")
    /\ UNCHANGED <<largestsize, fs, frame>>

\* a plausible slip: the two branches of the inspection exchanged
MainStatInverted ==
    /\ pc = "stat"
    /\ \E r \in osStat(fs, local) :
          /\ Record("stat", r)
          /\ maxpack' \in FoundSizes(r)
          /\ CASE r = "error" -> Count("Failed")
               [] r = "notexist" -> Goto("updDisablegc")
               [] r = "ok" -> Goto("clone")
    /\ UNCHANGED <<largestsize, fs, frame>>

\* a plausible slip: log.Fatalf for log.Printf on the error of os.Stat, which
\* ends the program
MainStatFatal ==
    /\ pc = "stat"
    /\ \E r \in osStat(fs, local) :
          /\ Record("stat", r)
          /\ maxpack' \in FoundSizes(r)
          /\ CASE r = "error" -> Goto("exit")
               [] r = "notexist" -> Goto("clone")
               [] r = "ok" -> Goto("updDisablegc")
    /\ UNCHANGED <<largestsize, fs, frame>>

\* lines 80-86: os.Stat(local)
MainStat ==
    /\ pc = "stat"
    /\ \E r \in osStat(fs, local) :
          /\ Record("stat", r)
          /\ maxpack' \in FoundSizes(r)
          /\ CASE r = "error" -> Count("Failed")
               [] r = "notexist" -> Goto("clone")
               [] r = "ok" -> Goto("updDisablegc")
    /\ UNCHANGED <<largestsize, fs, frame>>

\* a plausible slip: a failed clone tried once more
MirrorCloneRetries ==
    /\ pc = "clone"
    /\ \E ok \in BOOLEAN, partial \in BOOLEAN :
          /\ Record("clone", Result(ok))
          /\ fs' = clone(fs, local, ok, partial)
          /\ Goto(IF ok THEN "disablegc"
                  ELSE IF Len(ops) = 1 THEN "clone" ELSE "remove")
    /\ UNCHANGED <<sizes, frame>>

\* lines 89-95
MirrorClone ==
    /\ pc = "clone"
    /\ \E ok \in BOOLEAN, partial \in BOOLEAN :
          /\ Record("clone", Result(ok))
          /\ fs' = clone(fs, local, ok, partial)
          /\ Goto(IF ok THEN "disablegc" ELSE "remove")
    /\ UNCHANGED <<sizes, frame>>

\* lines 96-102
MirrorDisablegc ==
    /\ pc = "disablegc"
    /\ \E ok \in BOOLEAN :
          /\ Record("disablegc", Result(ok))
          /\ Goto(IF ok THEN "touch" ELSE "remove")
    /\ UNCHANGED <<sizes, fs, frame>>

\* a plausible slip: the error of touch ignored
MirrorTouchIgnoresError ==
    /\ pc = "touch"
    /\ \E ok \in BOOLEAN :
          /\ Record("touch", Result(ok))
          /\ Goto("objects")
    /\ UNCHANGED <<sizes, fs, frame>>

\* lines 103-109
MirrorTouch ==
    /\ pc = "touch"
    /\ \E ok \in BOOLEAN :
          /\ Record("touch", Result(ok))
          /\ Goto(IF ok THEN "objects" ELSE "remove")
    /\ UNCHANGED <<sizes, fs, frame>>

\* a plausible slip: ">=" for ">"
shouldRepackGE(size) == size >= Threshold

\* line 117
shouldRepack(size) == size > Threshold

\* a plausible slip: a failed walk counted as a failed inspection of the path
MirrorObjectsFailsGeneric ==
    /\ pc = "objects"
    /\ \E files \in FileLists :
          LET r == objects(files)
          IN  /\ ops' = Append(ops, <<"objects", Result(~r.err)>>)
              /\ logged' = logged \o LogLines(pc, "objects", Result(~r.err))
                               \o (IF ~r.err /\ shouldRepack(r.largestsize)
                                   THEN << <<"Should repack">> >> ELSE <<>>)
              /\ largestsize' = r.largestsize
              /\ maxpack' = MaxPack(files)
              /\ IF r.err
                 THEN Count("Failed")
                 ELSE IF shouldRepack(r.largestsize)
                 THEN Goto("repack")
                 ELSE Goto("update")
    /\ UNCHANGED <<fs, frame>>

\* lines 110-117
MirrorObjects ==
    /\ pc = "objects"
    /\ \E files \in FileLists :
          LET r == objects(files)
          IN  /\ ops' = Append(ops, <<"objects", Result(~r.err)>>)
              /\ logged' = logged \o LogLines(pc, "objects", Result(~r.err))
                               \o (IF ~r.err /\ shouldRepack(r.largestsize)
                                   THEN << <<"Should repack">> >> ELSE <<>>)
              /\ largestsize' = r.largestsize
              /\ maxpack' = MaxPack(files)
              /\ IF r.err
                 THEN Goto("remove")
                 ELSE IF shouldRepack(r.largestsize)
                 THEN Goto("repack")
                 ELSE Goto("update")
    /\ UNCHANGED <<fs, frame>>

\* lines 119-126
MirrorRepack ==
    /\ pc = "repack"
    /\ \E ok \in BOOLEAN :
          /\ Record("repack", Result(ok))
          /\ Goto(IF ok THEN "update" ELSE "remove")
    /\ UNCHANGED <<sizes, fs, frame>>

\* a plausible slip: the failure of update in the new-mirror sequence handled
\* as in the existing-mirror sequence, without remove(local)
MirrorUpdateNoRollback ==
    /\ pc = "update"
    /\ \E ok \in BOOLEAN :
          /\ Record("update", Result(ok))
          /\ IF ok THEN Count("Mirrored") ELSE Count("FailedMirror")
    /\ UNCHANGED <<sizes, fs, frame>>

\* a plausible slip: the fresh mirror taken for a temporary and removed once
\* the sequence is through
MirrorUpdateCleansUp ==
    /\ pc = "update"
    /\ \E ok \in BOOLEAN :
          /\ Record("update", Result(ok))
          /\ IF ok
             THEN Count("Mirrored") /\ fs' = remove(fs, local, TRUE)
             ELSE Goto("remove") /\ fs' = fs
    /\ UNCHANGED <<sizes, frame>>

\* lines 128-136
MirrorUpdate ==
    /\ pc = "update"
    /\ \E ok \in BOOLEAN :
          /\ Record("update", Result(ok))
          /\ IF ok THEN Count("Mirrored") ELSE Goto("remove")
    /\ UNCHANGED <<sizes, fs, frame>>

\* a plausible slip: the "continue" after stat.FailedMirror++ is missing, so the
\* failed repository runs on to stat.Mirrored++ as well
MirrorRemoveNoContinue ==
    /\ pc = "remove"
    /\ \E ok \in BOOLEAN :
          /\ Record("remove", Result(ok))
          /\ fs' = remove(fs, local, ok)
          /\ left' = IF local \in fs' THEN left \cup {local} ELSE left
    /\ stats' = [stats EXCEPT ![si].FailedMirror = @ + 1, ![si].Mirrored = @ + 1]
    /\ outcome' = "FailedMirror"
    /\ good' = good
    /\ ri' = ri + 1
    /\ pc' = "repo"
    /\ UNCHANGED <<sizes, frame_but_left>>

\* lines 92-94, 99-101, 106-108, 113-115, 122-124, 131-133: remove(local), whose
\* result main drops; stat.FailedMirror++; continue
MirrorRemove ==
    /\ pc = "remove"
    /\ \E ok \in BOOLEAN :
          /\ Record("remove", Result(ok))
          /\ fs' = remove(fs, local, ok)
          /\ left' = IF local \in fs' THEN left \cup {local} ELSE left
    /\ Count("FailedMirror")
    /\ UNCHANGED <<sizes, frame_but_left>>

\* a plausible slip: a mirror on which disablegc fails is taken for a broken
\* clone and removed
UpdateDisablegcRollback ==
    /\ pc = "updDisablegc"
    /\ \E ok \in BOOLEAN :
          /\ Record("disablegc", Result(ok))
          /\ Goto(IF ok THEN "updUpdate" ELSE "remove")
    /\ UNCHANGED <<sizes, fs, frame>>

\* a plausible slip: the pack-size rule applied to a mirror that is in place
UpdateDisablegcRepacks ==
    /\ pc = "updDisablegc"
    /\ \E ok \in BOOLEAN :
          /\ Record("disablegc", Result(ok))
          /\ IF ok
             THEN Goto(IF shouldRepack(maxpack) THEN "repack" ELSE "updUpdate")
             ELSE Count("FailedUpdate")
    /\ UNCHANGED <<sizes, fs, frame>>

\* lines 138-144
UpdateDisablegc ==
    /\ pc = "updDisablegc"
    /\ \E ok \in BOOLEAN :
          /\ Record("disablegc", Result(ok))
          /\ IF ok THEN Goto("updUpdate") ELSE Count("FailedUpdate")
    /\ UNCHANGED <<sizes, fs, frame>>

\* a plausible slip: the failure of update on an existing mirror handled as in
\* the new-mirror sequence, with remove(local)
UpdateUpdateRollback ==
    /\ pc = "updUpdate"
    /\ \E ok \in BOOLEAN :
          /\ Record("update", Result(ok))
          /\ IF ok THEN Count("Updated") ELSE Goto("remove")
    /\ UNCHANGED <<sizes, fs, frame>>

\* lines 145-152
UpdateUpdate ==
    /\ pc = "updUpdate"
    /\ \E ok \in BOOLEAN :
          /\ Record("update", Result(ok))
          /\ IF ok THEN Count("Updated") ELSE Count("FailedUpdate")
    /\ UNCHANGED <<sizes, fs, frame>>

\* lines 24-29: "username@domain", or the domain of a source without username
String(source) ==
    IF source.Username # "" THEN <<source.Username, "@", source.Domain>>
    ELSE <<source.Domain>>

\* lines 156-158: one log line per Stat
ReportLine(stat) ==
    [Source |-> String(Sources[stat.Source]), repos |-> Len(stat.Repos), skipped |-> stat.Skipped,
     mirrored |-> stat.Mirrored, updated |-> stat.Updated, failed |-> stat.Failed,
     failed_mirror |-> stat.FailedMirror, failed_update |-> stat.FailedUpdate]

\* a plausible slip: no line for a source that listed nothing
MainReportSkipsEmpty ==
    /\ pc = "report"
    /\ report' = LET listed == SelectSeq(stats, LAMBDA stat : Len(stat.Repos) > 0)
                 IN  [s \in 1..Len(listed) |-> ReportLine(listed[s])]
    /\ pc' = "done"
    /\ UNCHANGED <<progvars_but_pc, ops, outcome, maxpack, fs0, good, prevGood,
                   listfailed, logged, left, filtervars>>

MainReport ==
    /\ pc = "report"
    /\ report' = [s \in 1..Len(stats) |-> ReportLine(stats[s])]
    /\ pc' = "done"
    /\ UNCHANGED <<progvars_but_pc, ops, outcome, maxpack, fs0, good, prevGood,
                   listfailed, logged, left, filtervars>>

\* the program is invoked again (periodic trigger): nothing but the
\* filesystem survives
Restart ==
    /\ pc = "done"
    /\ run < MaxRuns
    /\ run' = run + 1
    /\ pc' = "main"
    /\ si' = 1
    /\ stats' = <<>>
    /\ page' = 1
    /\ repos' = <<>>
    /\ ri' = 1
    /\ local' = NoPath
    /\ largestsize' = 0
    /\ ops' = <<>>
    /\ outcome' = "none"
    /\ maxpack' = 0
    /\ fs0' = fs
    /\ prevGood' = good
    /\ good' = {}
    /\ listfailed' = {}
    /\ report' = <<>>
    /\ logged' = <<>>
    /\ UNCHANGED <<fs, left, filtervars>>

Batch ==
    \/ MainSource
    \/ GetRepo
    \/ MainRepo
    \/ MainStat
    \/ MirrorClone
    \/ MirrorDisablegc
    \/ MirrorTouch
    \/ MirrorObjects
    \/ MirrorRepack
    \/ MirrorUpdate
    \/ MirrorRemove
    \/ UpdateDisablegc
    \/ UpdateUpdate
    \/ MainReport

\* what getRepo returns for a source when every fetch succeeds
RECURSIVE Listing(_, _)
Listing(s, p) ==
    IF p > Len(RemotePages[s]) THEN <<>> ELSE RemotePages[s][p] \o Listing(s, p + 1)

\* the local path of the repository a history key <<source, index, ...>> names
PathOf(key) == LocalPath(Sources[key[1]], Listing(key[1], 1)[key[2]])

\* between two invocations somebody deletes a local path by hand; the
\* histories forget what they held about that path
ExternalDelete ==
    /\ pc = "done"
    /\ run < MaxRuns
    /\ \E path \in fs :
          /\ fs' = fs \ {path}
          /\ left' = left \ {path}
          /\ good' = {g \in good : PathOf(g) # path}
    /\ UNCHANGED <<pc, run, si, stats, page, repos, ri, local, largestsize, ops,
                   outcome, maxpack, fs0, prevGood, listfailed, report, logged,
                   filtervars>>

Next == Batch \/ Restart \/ ExternalDelete

Spec == Init /\ [][Next]_vars

\* main is sequential code whose every call returns: whenever it has a next
\* step it takes it.  Nothing obliges the trigger to invoke the program again.
LiveSpec == Init /\ [][Next]_vars /\ WF_vars(Batch)

(***************************************************************************)
(* skip as a function of its arguments: the source's include and exclude   *)
(* lists are drawn from a pool of patterns (a lone star, a prefix glob, a  *)
(* literal, the malformed "[", and a glob with "?" and a class) and the    *)
(* remote from names that some of them match and some do not.              *)
(***************************************************************************)
PatternPool ==
    { <<"*">>, <<"a", "/", "*">>, <<"a", "/", "b">>, <<"[">>,
      <<"?", "/", "[", "b", "c", "]">> }

RemotePool == { <<"a", "/", "b">>, <<"a", "/", "c">>, <<"b">>, <<"[">> }

PatternLists == UNION {[1..n -> PatternPool] : n \in 0..MaxPatterns}

FilterInit ==
    /\ pc = "filter"
    /\ run = 1
    /\ si = 1
    /\ stats = <<>>
    /\ page = 1
    /\ repos = <<>>
    /\ ri = 1
    /\ local = NoPath
    /\ largestsize = 0
    /\ fs = {}
    /\ ops = <<>>
    /\ outcome = "none"
    /\ maxpack = 0
    /\ fs0 = {}
    /\ good = {}
    /\ prevGood = {}
    /\ listfailed = {}
    /\ report = <<>>
    /\ logged = <<>>
    /\ left = {}
    /\ fsource \in [Exclude : PatternLists, Include : PatternLists]
    /\ fremote \in RemotePool
    /\ fresult = "idle"

\* lines 76 and 239-247: the call skip(source, remote)
FilterCall ==
    /\ pc = "filter"
    /\ fresult = "idle"
    /\ fresult' = IF skip(fsource, fremote) THEN "skip" ELSE "keep"
    /\ UNCHANGED <<progvars, histvars, fsource, fremote>>

FilterSpec == FilterInit /\ [][FilterCall]_vars

(***************************************************************************)
(* Properties.                                                             *)
(***************************************************************************)
\* the positions of main inside the body of the loop over the repositories
BodyPcs == {"repo", "stat", "clone", "disablegc", "touch", "objects", "repack",
            "update", "remove", "updDisablegc", "updUpdate"}

Sum(stat) ==
    stat.Skipped + stat.Mirrored + stat.Updated + stat.Failed
        + stat.FailedMirror + stat.FailedUpdate

CountersOf(stat) == [c \in Counters |-> stat[c]]

\* number of repositories of source s whose processing has returned
Processed(s) ==
    IF s < si THEN Len(stats[s].Repos)
    ELSE IF pc \in BodyPcs THEN ri - 1
    ELSE 0

OutcomeCountInv == \A s \in 1..Len(stats) : Sum(stats[s]) = Processed(s)

OutcomeCountStep ==
    IF pc \in BodyPcs /\ ri' = ri + 1
    THEN \E c \in Counters : stats' = [stats EXCEPT ![si][c] = @ + 1]
    ELSE (run' = run /\ Len(stats') = Len(stats)) =>
            \A s \in 1..Len(stats) : CountersOf(stats'[s]) = CountersOf(stats[s])

\* C1: the step that ends the processing of a repository increments exactly
\* one of the six counters of its source by one and no other step changes a
\* counter; so the six counters of a source always add up to the number of
\* its repositories processed so far, and to the number listed once the
\* source is done.
C1_OutcomeExclusivity == []OutcomeCountInv /\ [][OutcomeCountStep]_vars

\* C1 witness: a finished batch whose two sources spread their repositories
\* over four different counters
C1_Witness ==
    /\ pc = "done"
    /\ stats[1].Mirrored = 1
    /\ stats[1].FailedMirror = 1
    /\ stats[2].Updated = 1
    /\ stats[2].Skipped = 1

\* reading the history of the repository at hand
OpNames == [i \in 1..Len(ops) |-> ops[i][1]]
Invoked(op) == \E i \in 1..Len(ops) : ops[i][1] = op
TimesInvoked(op) == Cardinality({i \in 1..Len(ops) : ops[i][1] = op})
FailedAt(i) == ops[i][1] # "stat" /\ ops[i][2] = "fail"
\* the processing of the repository at hand has returned
Returned == pc = "repo" /\ outcome # "none"

\* the steps of the new-mirror sequence
MirrorSteps == {"clone", "disablegc", "touch", "objects", "repack", "update"}
NewMirrorStepFailed ==
    /\ Invoked("clone")
    /\ \E i \in 1..Len(ops) : ops[i][1] \in MirrorSteps /\ FailedAt(i)

\* what C2 says but for the state of the path afterwards
RollbackShape ==
    /\ NewMirrorStepFailed /\ outcome = "none" => pc = "remove"
    /\ NewMirrorStepFailed /\ Returned =>
          /\ outcome = "FailedMirror"
          /\ ops[Len(ops)][1] = "remove"
          /\ TimesInvoked("remove") = 1
          /\ FailedAt(Len(ops) - 1)
          /\ \A i \in 1..(Len(ops) - 2) : ~FailedAt(i)

\* C2 as stated: after a failed step of the new-mirror sequence remove is
\* invoked, no later step runs, the outcome is FailedMirror, and the local
\* path does not exist once the processing of the repository has returned,
\* whether or not remove succeeded.
C2_RollbackOriginal ==
    /\ RollbackShape
    /\ NewMirrorStepFailed /\ Returned => local \notin fs

\* C2 amended: as above, but the local path is known not to exist afterwards
\* only when remove succeeded; when remove fails the path is left as the
\* failed sequence left it.
C2_Rollback ==
    /\ RollbackShape
    /\ NewMirrorStepFailed /\ Returned /\ ops[Len(ops)][2] = "ok" => local \notin fs

\* C2 witness: update fails right after clone, disablegc and touch succeeded;
\* remove has run and the path is gone
C2_Witness ==
    /\ Returned
    /\ OpNames = <<"stat", "clone", "disablegc", "touch", "objects", "update", "remove">>
    /\ ops[6][2] = "fail"
    /\ outcome = "FailedMirror"
    /\ local \notin fs

\* the inspection of the repository at hand found its path Present
FoundPresent == Len(ops) >= 1 /\ ops[1] = <<"stat", "ok">>

\* C3: when the path is Present at inspection and disablegc or update fails,
\* the processing returns at once with the outcome FailedUpdate, remove (and
\* clone) is never invoked for the repository and the path still exists.
C3_Preservation ==
    /\ FoundPresent => ~Invoked("remove") /\ ~Invoked("clone") /\ local \in fs
    /\ FoundPresent /\ (\E i \in 1..Len(ops) : FailedAt(i)) =>
          /\ Returned
          /\ outcome = "FailedUpdate"
          /\ FailedAt(Len(ops))

\* C3 witness: update fails on an existing mirror after disablegc succeeded
C3_Witness ==
    /\ Returned
    /\ ops = <<(<<"stat", "ok">>), (<<"disablegc", "ok">>), (<<"update", "fail">>)>>
    /\ outcome = "FailedUpdate"
    /\ local \in fs

\* objects returned without error for the repository at hand
Measured == \E i \in 1..Len(ops) : ops[i] = <<"objects", "ok">>

\* C4: in the new-mirror sequence repack is invoked exactly when the largest
\* pack measured after clone, disablegc and touch is greater than 95 MiB =
\* 99614720 bytes (not at 99614720, but at 99614721), the measure being the
\* size of the largest ".pack" file of the walked tree; repack is never
\* invoked without a measure, and where it is invoked it runs before update.
C4_RepackTrigger ==
    /\ Measured => largestsize = maxpack
    /\ Measured => ((pc = "repack" \/ Invoked("repack")) <=> maxpack > 99614720)
    /\ Measured /\ largestsize = 99614720 => pc # "repack" /\ ~Invoked("repack")
    /\ Measured /\ largestsize = 99614721 => pc = "repack" \/ Invoked("repack")
    /\ ~Measured => pc # "repack" /\ ~Invoked("repack")
    /\ \A i \in 1..Len(ops) : \A j \in 1..Len(ops) :
          ops[i][1] = "repack" /\ ops[j][1] = "update" => i < j
    /\ Invoked("repack") /\ Invoked("update") =>
          \E i \in 1..Len(ops) : ops[i] = <<"repack", "ok">>

\* C4 witness: a largest pack of 95 MiB + 1 byte, repack invoked and then
\* update
C4_Witness ==
    /\ maxpack = 99614721
    /\ OpNames = <<"stat", "clone", "disablegc", "touch", "objects", "repack", "update">>
    /\ outcome = "Mirrored"

\* the key <<source, index>> and the record of the repository at hand
CurKey == IF pc = "repo" THEN <<si, ri - 1>> ELSE <<si, ri>>
AtRepo == pc \in BodyPcs /\ (ops # <<>> \/ outcome # "none")
PrevGoodKeys == {<<g[1], g[2]>> : g \in prevGood}

\* C5: a repository counted Mirrored or Updated keeps its local path to the
\* end of the run, and in the next run, which lists the same repositories,
\* its inspection never reports Absent, clone is never invoked for it, and
\* it is counted Updated (never Mirrored) once disablegc and update succeeded.
C5_Idempotence ==
    /\ \A g \in good : LocalPath(Sources[g[1]], stats[g[1]].Repos[g[2]]) \in fs
    /\ AtRepo /\ CurKey \in PrevGoodKeys =>
          /\ local \in fs0
          /\ ops # <<>> => ops[1] # <<"stat", "notexist">>
          /\ ~Invoked("clone")
          /\ outcome \notin {"Mirrored", "Skipped", "FailedMirror"}
          /\ (\E i \in 1..Len(ops) : ops[i] = <<"update", "ok">>) => outcome = "Updated"

\* C5 witness: the repository was Mirrored in the previous run and is Updated
\* in this one
C5_Witness ==
    /\ run = 2
    /\ Returned
    /\ <<si, ri - 1, "Mirrored">> \in prevGood
    /\ ops = <<(<<"stat", "ok">>), (<<"disablegc", "ok">>), (<<"update", "ok">>)>>
    /\ outcome = "Updated"

\* e matches some pattern of s: it equals the pattern or the pattern, as a
\* glob, matches the whole of it
MatchesSome(s, e) == \E i \in 1..Len(s) : s[i] = e \/ Match(s[i], e)

\* C6: skip(source, url) is true exactly when url matches some exclude pattern,
\* or the include list is not empty and url matches none of its patterns; so
\* an exclude match wins whatever the include list, and with an empty include
\* list and no exclude match the result is false.
C6_FilterTable ==
    fresult # "idle" =>
        /\ fresult = "skip" <=>
              \/ MatchesSome(fsource.Exclude, fremote)
              \/ /\ Len(fsource.Include) > 0
                 /\ ~MatchesSome(fsource.Include, fremote)
        /\ MatchesSome(fsource.Exclude, fremote) => fresult = "skip"
        /\ Len(fsource.Include) = 0 /\ ~MatchesSome(fsource.Exclude, fremote) =>
              fresult = "keep"

\* C6 witness: a URL that an exclude pattern and an include pattern both match
\* is skipped
C6_Witness ==
    /\ fresult = "skip"
    /\ fremote = <<"a", "/", "b">>
    /\ fsource.Exclude = << <<"[">>, <<"?", "/", "[", "b", "c", "]">> >>
    /\ fsource.Include = << <<"a", "/", "*">> >>

\* C7 as stated: for the source with exclude ["*/archived/*"] and no include
\* pattern, .../team/api.git is not skipped and .../team/archived/old.git is
\* skipped, so that it is counted Skipped and no operation runs for it.
C7_GlobExample ==
    /\ Sources[1].Exclude = <<ArchivedGlob>> /\ Sources[1].Include = <<>>
    /\ si = 1 /\ AtRepo /\ local = LocalPath(Sources[1], ApiRepo) =>
          outcome # "Skipped"
    /\ si = 1 /\ pc \in BodyPcs /\ local = LocalPath(Sources[1], OldRepo) =>
          outcome = "Skipped" /\ ops = <<>>

\* the local paths of the repositories of this run that were inspected before
\* the one at hand
Inspected(s, listed, n) ==
    {LocalPath(Sources[s], listed[k]) :
        k \in {j \in 1..n : ~skip(Sources[s], listed[j].HTTPURLToRepo)}}
EarlierPaths ==
    UNION {Inspected(s, stats[s].Repos, Len(stats[s].Repos)) : s \in 1..(si - 1)}
        \cup Inspected(si, repos, IF pc = "repo" THEN ri - 2 ELSE ri - 1)

\* the inspection of the repository at hand has answered Absent or Present
FoundAbsent == Len(ops) >= 1 /\ ops[1] = <<"stat", "notexist">>

\* C8 as stated, read on one batch: what happens to a repository does not
\* depend on the results of the operations of any other repository of the
\* batch.  The results of the others reach it through the filesystem alone,
\* and the steps of a repository decide whether its path exists afterwards
\* (a clone that succeeds or fails), so the claim has every repository find
\* at inspection what the batch found at its start.
C8_IsolationOriginal ==
    /\ FoundAbsent => local \notin fs0
    /\ FoundPresent => local \in fs0

\* no step of the loop body touches another path than the local path of the
\* repository at hand, leaves the source, or moves but to the next repository
IsolationStep ==
    pc \in BodyPcs \ {"repo"} =>
        /\ \A p \in AllPaths \ {local} : p \in fs' <=> p \in fs
        /\ local' = local
        /\ pc' \in BodyPcs
        /\ si' = si
        /\ ri' = IF pc' = "repo" THEN ri + 1 ELSE ri
        /\ Len(stats') = Len(stats)
        /\ \A s \in 1..Len(stats) : s # si => stats'[s] = stats[s]

\* C8 amended: isolation holds between repositories with different local
\* paths.  A repository whose local path no earlier repository of the batch
\* had finds the path as the batch found it, whatever failed before; the
\* steps of a repository change no other path and no counter of another
\* source, and after any failure main goes on with the next repository.
C8_Isolation ==
    /\ [](/\ FoundAbsent /\ local \notin EarlierPaths => local \notin fs0
          /\ FoundPresent /\ local \notin EarlierPaths => local \in fs0)
    /\ [][IsolationStep]_vars

\* C8 witness: the first repository of a source failed, with a partial mirror
\* left behind, and the second, found as the batch began, is mirrored
C8_Witness ==
    /\ Returned
    /\ si = 1 /\ ri = 3
    /\ stats[1].FailedMirror = 1
    /\ LocalPath(Sources[1], ApiRepo) \in fs \ fs0
    /\ local \notin EarlierPaths
    /\ outcome = "Mirrored"

\* the six counters of a Stat are zero
NothingCounted(stat) == \A c \in Counters : stat[c] = 0
FailedSources == {f[1] : f \in listfailed}

\* a step that abandons a source: it leaves the filesystem and the Stats as
\* they are and moves to the next source
ListingFailureStep ==
    listfailed' # listfailed /\ run' = run =>
        /\ pc = "getRepo" /\ pc' = "main"
        /\ si' = si + 1
        /\ listfailed' = listfailed \cup {<<si, page>>}
        /\ fs' = fs
        /\ stats' = stats
        /\ ops' = ops

\* C9: when the fetch of a page of a source fails, whichever page it is, the
\* source is abandoned: the body of the loop over its repositories is never
\* entered, its repository list stays empty and its six counters stay 0, the
\* filesystem is as it was when the source began, and main moves to the next
\* source.
C9_ListingFailure ==
    /\ [](\A s \in FailedSources :
             /\ s < si
             /\ stats[s].Repos = <<>>
             /\ NothingCounted(stats[s]))
    /\ [](pc \in BodyPcs => si \notin FailedSources)
    /\ [](pc = "getRepo" => ops = <<>> /\ outcome = "none")
    /\ [][pc = "getRepo" => fs' = fs]_vars
    /\ [][ListingFailureStep]_vars

\* C9 witness: the second page of the first source failed after the first was
\* fetched; the first source counts nothing and the second source was
\* processed
C9_Witness ==
    /\ pc = "done"
    /\ listfailed = {<<1, 2>>}
    /\ report[1].repos = 0
    /\ NothingCounted(stats[1])
    /\ stats[2].Mirrored = 1
    /\ stats[2].Skipped = 1

\* C10: every run of the batch that begins reaches its end, with the report
\* of one line per configured source logged, whatever failed on the way.
C10_BatchCompletes ==
    (pc = "main" /\ si = 1) ~> (pc = "done" /\ Len(report) = Len(Sources))

\* C10 witness: the batch is through after a listing failure, an inspection
\* failure and a failed mirroring
C10_Witness ==
    /\ pc = "done"
    /\ Len(report) = Len(Sources)
    /\ listfailed = {<<2, 1>>}
    /\ report[1].failed = 1
    /\ report[1].failed_mirror = 1

(***************************************************************************)
(* C11 - the inspection of the local path fails                            *)
(***************************************************************************)
StatFailed == ops # <<>> /\ ops[1] = <<"stat", "error">>

\* C11: when os.Stat of the local path fails with an error other than "not
\* exist", the processing of the repository returns at once counted under the
\* generic Failed (by one, and Failed counts nothing else), none of clone,
\* disablegc, touch, objects, repack, update and remove is invoked for it, and
\* the filesystem is left as it was.
C11_InspectionError ==
    /\ [](StatFailed =>
            /\ Returned
            /\ outcome = "Failed"
            /\ ops = << <<"stat", "error">> >>
            /\ logged = << <<"Failed to stat">> >>)
    /\ [](outcome = "Failed" => StatFailed)
    /\ [][(pc = "repo" \/ pc = "stat") => fs' = fs]_vars
    /\ [][pc = "stat" /\ outcome' = "Failed" =>
            stats'[si].Failed = stats[si].Failed + 1]_vars

\* C11 witness: the inspection of a mirror that is in place has failed; the
\* repository is counted Failed and the mirror is still there
C11_Witness ==
    /\ Returned
    /\ StatFailed
    /\ outcome = "Failed"
    /\ stats[si].Failed = 1
    /\ local \in fs
    /\ local \in fs0

(***************************************************************************)
(* C12 - filtered repositories                                             *)
(***************************************************************************)
\* the listed repository that is being or has just been processed
CurRepo == repos[CurKey[2]]
Filtered == skip(Sources[si], CurRepo.HTTPURLToRepo)

\* C12: a repository that the filter rejects is counted Skipped (by one) and
\* nothing else happens for it: its local path is not inspected, no
\* maintenance operation is invoked, nothing is logged and the filesystem is
\* left as it was, whether a mirror is in place at its path or not; a
\* repository that the filter lets through is never counted Skipped.
C12_FilteredSkipped ==
    /\ [](pc \in BodyPcs /\ local # NoPath =>
            /\ Filtered <=> outcome = "Skipped"
            /\ Filtered => Returned /\ ops = <<>> /\ logged = <<>>)
    /\ [][outcome' = "Skipped" /\ pc = "repo" =>
            /\ fs' = fs
            /\ stats'[si].Skipped = stats[si].Skipped + 1
            /\ ri' = ri + 1]_vars

\* C12 witness: the second source has skipped team/archived/old, whose mirror
\* is in place from the first source and stays in place
C12_Witness ==
    /\ Returned
    /\ outcome = "Skipped"
    /\ Filtered
    /\ ops = <<>>
    /\ local \in fs
    /\ stats[si].Skipped = 1

(***************************************************************************)
(* C13 - the shape of the report                                           *)
(***************************************************************************)
CountersFrameStep ==
    run' = run =>
        \A s \in 1..Len(stats) :
            s # si => s <= Len(stats') /\ stats'[s] = stats[s]

\* C13: the report logged at the end of a run has exactly one line for every
\* configured source, in the order of the configuration, also for a source
\* whose listing failed; the line names the source and carries the number of
\* repositories listed and the six counters of that source; and a step taken
\* for one source never changes the counters of another source.
C13_ReportShape ==
    /\ [](pc = "done" =>
            /\ Len(report) = Len(Sources)
            /\ \A s \in 1..Len(Sources) :
                  /\ report[s].Source = String(Sources[s])
                  /\ report[s].repos =
                        (IF \E f \in listfailed : f[1] = s THEN 0
                         ELSE Len(Listing(s, 1)))
                  /\ report[s].skipped = stats[s].Skipped
                  /\ report[s].mirrored = stats[s].Mirrored
                  /\ report[s].updated = stats[s].Updated
                  /\ report[s].failed = stats[s].Failed
                  /\ report[s].failed_mirror = stats[s].FailedMirror
                  /\ report[s].failed_update = stats[s].FailedUpdate
                  /\ Sum(stats[s]) = report[s].repos)
    /\ [][CountersFrameStep]_vars

\* C13 witness: the listing of the first source failed and the second source
\* mirrored one repository and skipped the other; the report has the line of
\* the first source, all zero, before the line of the second
C13_Witness ==
    /\ pc = "done"
    /\ listfailed = {<<1, 1>>}
    /\ Len(report) = 2
    /\ report[1].Source = <<"gitlab.example.com">>
    /\ report[1].repos = 0
    /\ report[2].Source = <<"bob", "@", "gitlab.example.com">>
    /\ report[2].repos = 2
    /\ report[2].mirrored = 1
    /\ report[2].skipped = 1

(***************************************************************************)
(* C14 - the order of the new-mirror sequence                              *)
(***************************************************************************)
IsPrefix(a, b) == Len(a) <= Len(b) /\ \A i \in 1..Len(a) : a[i] = b[i]

PlainOrder == <<"stat", "clone", "disablegc", "touch", "objects", "update">>
RepackOrder == <<"stat", "clone", "disablegc", "touch", "objects", "repack", "update">>

\* the operations invoked for the repository at hand but for the rollback
Steps ==
    IF ops # <<>> /\ ops[Len(ops)][1] = "remove" THEN SubSeq(ops, 1, Len(ops) - 1)
    ELSE ops
StepNames == [i \in 1..Len(Steps) |-> Steps[i][1]]

\* C14: for a repository whose path is Absent at inspection the operations are
\* invoked in the order clone, disablegc, touch, objects, repack (optional),
\* update and in no other; a step is invoked only when every step before it
\* has succeeded; and the repository is counted Mirrored only when update,
\* invoked as the last step of the whole sequence, has succeeded.  The
\* operations clone, touch, objects and repack are invoked for no other
\* repository.
C14_NewMirrorOrder ==
    /\ FoundAbsent =>
          /\ IsPrefix(StepNames, PlainOrder) \/ IsPrefix(StepNames, RepackOrder)
          /\ ~Invoked("remove") \/ ops[Len(ops)][1] = "remove"
          /\ \A i \in 2..(Len(Steps) - 1) : Steps[i][2] = "ok"
    /\ outcome = "Mirrored" =>
          /\ FoundAbsent
          /\ StepNames \in {PlainOrder, RepackOrder}
          /\ \A i \in 2..Len(ops) : ops[i][2] = "ok"
          /\ ops[Len(ops)] = <<"update", "ok">>
          /\ <<"Successfully mirror">> = logged[Len(logged)]
    /\ \A op \in {"clone", "touch", "objects", "repack"} : Invoked(op) => FoundAbsent

\* C14 witness: a repository is counted Mirrored after clone, disablegc, touch,
\* objects and update, in this order and all successful, with a largest pack
\* of exactly 95 MiB and so no repack
C14_Witness ==
    /\ Returned
    /\ outcome = "Mirrored"
    /\ OpNames = PlainOrder
    /\ maxpack = Threshold
    /\ local \in fs

(***************************************************************************)
(* C15 - the sequence for a mirror that is in place                        *)
(***************************************************************************)
UpdateOrder == <<"stat", "disablegc", "update">>

\* C15: for a repository whose path is Present at inspection only disablegc
\* and then update are invoked, update only when disablegc has succeeded;
\* clone, touch, objects and repack are never invoked for it and no size is
\* measured, however large the largest pack of the mirror is; and the
\* repository is counted Updated only when update, invoked last, has
\* succeeded, and FailedUpdate only when disablegc or update has failed.
C15_ExistingMirrorSequence ==
    /\ FoundPresent =>
          /\ IsPrefix(OpNames, UpdateOrder)
          /\ Len(ops) = 3 => ops[2] = <<"disablegc", "ok">>
          /\ largestsize = 0
          /\ pc \in {"updDisablegc", "updUpdate", "repo"}
          /\ Returned => outcome \in {"Updated", "FailedUpdate"}
    /\ outcome = "Updated" =>
          /\ ops = << <<"stat", "ok">>, <<"disablegc", "ok">>, <<"update", "ok">> >>
          /\ logged = << <<"Updating">>, <<"Successfully update">> >>
    /\ outcome = "FailedUpdate" =>
          /\ FoundPresent
          /\ ops[Len(ops)] \in {<<"disablegc", "fail">>, <<"update", "fail">>}

\* C15 witness: a mirror whose largest pack is over 95 MiB has been updated
\* by disablegc and update alone
C15_Witness ==
    /\ Returned
    /\ outcome = "Updated"
    /\ OpNames = UpdateOrder
    /\ maxpack > Threshold
    /\ local \in fs

(***************************************************************************)
(* C16 - the precondition of clone                                         *)
(***************************************************************************)
\* C16: clone is invoked for a repository only as the step right after the
\* inspection of its local path, once per inspection, and only when that
\* inspection reported the path Absent; the path does not exist when clone is
\* invoked, so clone never runs against a path that is in place.
C16_ClonePrecondition ==
    /\ [](pc = "clone" => ops = << <<"stat", "notexist">> >> /\ local \notin fs)
    /\ [](Invoked("clone") =>
            /\ ops[1] = <<"stat", "notexist">>
            /\ ops[2][1] = "clone"
            /\ TimesInvoked("clone") = 1)
    /\ [][Invoked("clone")' /\ ~Invoked("clone") =>
            /\ pc = "clone"
            /\ local \notin fs
            /\ local' = local]_vars

\* C16 witness: the second source is about to clone the path team/api, which
\* the first source inspected as well and which a failed mirroring and its
\* rollback have left absent
C16_Witness ==
    /\ pc = "clone"
    /\ si = 2
    /\ ops = << <<"stat", "notexist">> >>
    /\ local \notin fs
    /\ local \in EarlierPaths
    /\ stats[1].FailedMirror >= 1

(***************************************************************************)
(* C17 - no retry                                                          *)
(***************************************************************************)
Operations ==
    {"stat", "clone", "disablegc", "touch", "objects", "repack", "update", "remove"}

\* the loops only advance: a step stays at the repository at hand or moves on
\* to the next one, or to the next source
AdvanceStep ==
    run' = run =>
        /\ si' \in {si, si + 1}
        /\ pc \in BodyPcs /\ si' = si => ri' \in {ri, ri + 1}
        /\ pc \in BodyPcs /\ ri' = ri + 1 => outcome' \in Counters /\ pc' = "repo"
        /\ Returned => pc' \in {"stat", "repo", "main"} /\ ops' = <<>>

\* C17: within one run the inspection and every maintenance operation are
\* invoked at most once for each repository of a listing, whatever their
\* results; and once the processing of a repository has returned with its
\* outcome the run moves on to the next repository or source and never comes
\* back to it, each repository of a listing having one outcome.
C17_NoRetry ==
    /\ [](\A op \in Operations : TimesInvoked(op) <= 1)
    /\ [](\A i \in 1..Len(ops) : ops[i][1] \in Operations)
    /\ [][AdvanceStep]_vars
    /\ [](\A s \in 1..Len(stats) : Sum(stats[s]) <= Len(stats[s].Repos))

\* C17 witness: clone and then remove have failed for a repository; each was
\* invoked once and the processing has returned with FailedMirror
C17_Witness ==
    /\ Returned
    /\ outcome = "FailedMirror"
    /\ ops = << <<"stat", "notexist">>, <<"clone", "fail">>, <<"remove", "fail">> >>
    /\ \A op \in {"stat", "clone", "remove"} : TimesInvoked(op) = 1

(***************************************************************************)
(* C18 - a failed removal                                                  *)
(***************************************************************************)
\* a line of the log that names the failed removal
RemovalFailureLogged ==
    \E j \in 1..Len(logged) : Len(logged[j]) = 2 /\ logged[j][2] = "remove"

\* C18: when remove fails during the rollback of a new-mirror attempt, a line
\* naming the failed removal has been logged by the time main goes on to the
\* next repository.
C18_RemovalFailureLogged ==
    Returned /\ ops # <<>> /\ ops[Len(ops)] = <<"remove", "fail">> =>
        RemovalFailureLogged

(***************************************************************************)
(* C19 - the walk of the object store fails                                *)
(***************************************************************************)
ObjectsFailed == \E i \in 1..Len(ops) : ops[i] = <<"objects", "fail">>

\* C19 as stated: when the walk of the object store fails, the repository is
\* counted under the generic Failed and its local path is not touched: remove
\* is not invoked and the path is still there.
C19_TraversalErrorOriginal ==
    ObjectsFailed /\ Returned =>
        /\ outcome = "Failed"
        /\ ~Invoked("remove")
        /\ local \in fs

\* C19, amended: when the walk of the object store fails (on an entry that
\* cannot be read or on the file information of a pack), the measure is
\* dropped, whatever sizes were met before the error: neither repack nor
\* update is invoked, the failure is logged as that of the step objects of the
\* new-mirror sequence, remove is invoked on the local path and the
\* repository is counted FailedMirror, never Failed.  The walk runs only for
\* a repository whose path was Absent at inspection.
C19_TraversalError ==
    ObjectsFailed =>
        /\ FoundAbsent
        /\ ~Invoked("repack") /\ ~Invoked("update")
        /\ <<"Failed mirror", "objects">> = logged[Len(logged)]
        /\ pc = "remove" \/ Returned
        /\ pc = "remove" => ops[Len(ops)] = <<"objects", "fail">>
        /\ Returned =>
              /\ outcome = "FailedMirror"
              /\ ops[Len(ops)][1] = "remove"
              /\ ops[Len(ops) - 1] = <<"objects", "fail">>
              /\ ops[Len(ops)][2] = "ok" => local \notin fs

\* C19 witness: the walk failed after a pack over 95 MiB had been met; the
\* fresh clone was removed without repack or update and the repository is
\* counted FailedMirror
C19_Witness ==
    /\ Returned
    /\ ObjectsFailed
    /\ largestsize > Threshold
    /\ outcome = "FailedMirror"
    /\ stats[si].Failed = 0
    /\ ops[Len(ops)] = <<"remove", "ok">>
    /\ local \notin fs

(***************************************************************************)
(* C20 - a path that a failed rollback has left in place                   *)
(***************************************************************************)
\* a rollback of an earlier run failed to remove the path of the repository
\* at hand, which the filter lets through, and nobody has deleted the path
\* since (a rollback of this run leaves a path that was not there when the
\* run began)
LeftEarlier == local \in left /\ local \in fs0 /\ ~Filtered

\* a path disappears only by the rollback of the repository at hand, whose
\* path was Absent at inspection, or by hand between two runs
DisappearStep ==
    \A path \in AllPaths :
        path \in fs /\ path \notin fs' =>
            \/ pc = "done"
            \/ pc = "remove" /\ path = local /\ FoundAbsent

\* C20 as stated: a repository whose rollback left its path in place is, in
\* every later run, counted Updated or FailedUpdate, with neither clone nor
\* remove invoked.
C20_LeftoverOriginal ==
    AtRepo /\ LeftEarlier /\ Returned =>
        /\ outcome \in {"Updated", "FailedUpdate"}
        /\ ~Invoked("clone")
        /\ ~Invoked("remove")

\* C20, amended: a path that a failed remove has left in place stays in place
\* until somebody deletes it by hand; in every later run before that the
\* inspection of the repository never reports Absent, neither clone nor
\* remove (nor touch, objects, repack) is invoked for it, and it is counted
\* Updated or FailedUpdate after disablegc and update alone, or Failed when
\* the inspection itself fails.
C20_LeftoverTreatedPresent ==
    /\ [](left \subseteq fs)
    /\ [](run = 1 => left \cap fs0 = {})
    /\ [][pc = "remove" /\ local \in fs' => local \in left' /\ local \notin fs0]_vars
    /\ [](AtRepo /\ LeftEarlier =>
            /\ local \in fs
            /\ ops # <<>> => ops[1] \in {<<"stat", "ok">>, <<"stat", "error">>}
            /\ \A op \in {"clone", "touch", "objects", "repack", "remove"} : ~Invoked(op)
            /\ FoundPresent => IsPrefix(OpNames, UpdateOrder)
            /\ Returned =>
                  /\ outcome \in {"Updated", "FailedUpdate", "Failed"}
                  /\ outcome = "Failed" <=> StatFailed)
    /\ [][DisappearStep]_vars

\* C20 witness: in the second run disablegc has failed on the path that the
\* failed rollback of the first run left in place; the repository is counted
\* FailedUpdate and the leftover is still there
C20_Witness ==
    /\ run = 2
    /\ Returned
    /\ LeftEarlier
    /\ ops = << <<"stat", "ok">>, <<"disablegc", "fail">> >>
    /\ outcome = "FailedUpdate"
    /\ local \in fs

====
